---------------------------- MODULE Spec2Model ----------------------------
(***************************************************************************)
(* Model of scripts/harvest_alma_uk.py: the Alma "find clinics" harvester. *)
(* One run of main() is a state machine: load the JSON array, filter and   *)
(* normalise one item per step, de-duplicate by source_ids, write the      *)
(* sorted CSV, print the summary.                                          *)
(*                                                                         *)
(* Python strings are sequences of one-character strings.  JSON values are *)
(* records [t |-> type, ...]; every non-dict value carries s, the text     *)
(* Python's str() gives for it, and a dict carries f, its key/value map.   *)
(***************************************************************************)
EXTENDS Integers, Sequences, FiniteSets, TLC

VARIABLES
    fileState,  \* LOCATIONS_JSON on disk: "missing", "malformed" or "array"
    data,       \* the parsed JSON array (json.loads result)
    csvFile,    \* data/alma/locations.csv: [exists, rows]
    pc,         \* position in main(): start, loop, dedupe, write, print, done, exit, crashed
    idx,        \* loop position: next item of data (parse_dataset), next entry of out (de-dupe)
    out,        \* parse_dataset's list `out`
    origin,     \* origin[j]: index in data of the item out[j] was built from
    uniq,       \* the de-dupe dict, as its values in insertion order
    rows,       \* what parse_dataset returned
    stdout,     \* the summary line, once printed
    exitStatus, \* process exit status; -1 while running
    stderr      \* the SystemExit message / traceback marker

vars == <<fileState, data, csvFile, pc, idx, out, origin, uniq, rows, stdout, exitStatus, stderr>>

---------------------------------------------------------------------------
(* Characters and strings *)

UpperChars == <<"A","B","C","D","E","F","G","H","I","J","K","L","M",
                "N","O","P","Q","R","S","T","U","V","W","X","Y","Z">>
LowerChars == <<"a","b","c","d","e","f","g","h","i","j","k","l","m",
                "n","o","p","q","r","s","t","u","v","w","x","y","z">>
DigitChars == <<"0","1","2","3","4","5","6","7","8","9">>

IndexIn(c, chars) == IF \E k \in 1..Len(chars) : chars[k] = c
                     THEN CHOOSE k \in 1..Len(chars) : chars[k] = c
                     ELSE 0

UpperSet == {UpperChars[k] : k \in 1..Len(UpperChars)}
LowerSet == {LowerChars[k] : k \in 1..Len(LowerChars)}
DigitSet == {DigitChars[k] : k \in 1..Len(DigitChars)}

IsUpper(c)  == c \in UpperSet
IsLower(c)  == c \in LowerSet
IsLetter(c) == IsUpper(c) \/ IsLower(c)
IsDigit(c)  == c \in DigitSet
\* \s of re and the characters str.strip() removes
IsSpace(c)  == c \in {" ", "\t", "\n"}
\* \w of re
IsWord(c)   == IsLetter(c) \/ IsDigit(c) \/ c = "_"

\* str.lower() / str.upper()
LowerChar(c) == IF IsUpper(c) THEN LowerChars[IndexIn(c, UpperChars)] ELSE c
UpperChar(c) == IF IsLower(c) THEN UpperChars[IndexIn(c, LowerChars)] ELSE c
Lower(s) == [k \in 1..Len(s) |-> LowerChar(s[k])]
Upper(s) == [k \in 1..Len(s) |-> UpperChar(s[k])]

\* ord(c) for the characters the model uses
Ord(c) == IF IsDigit(c) THEN 47 + IndexIn(c, DigitChars)
          ELSE IF IsUpper(c) THEN 64 + IndexIn(c, UpperChars)
          ELSE IF IsLower(c) THEN 96 + IndexIn(c, LowerChars)
          ELSE CASE c = "\t" -> 9  [] c = "\n" -> 10 [] c = " " -> 32
                 [] c = "'" -> 39  [] c = "+" -> 43  [] c = "," -> 44
                 [] c = "-" -> 45  [] c = "." -> 46  [] c = "/" -> 47
                 [] c = ":" -> 58  [] c = "[" -> 91  [] c = "]" -> 93
                 [] c = "_" -> 95  [] c = "{" -> 123 [] c = "|" -> 124
                 [] c = "}" -> 125

\* str < str: lexicographic by code point
RECURSIVE StrLess(_, _)
StrLess(a, b) ==
    IF b = <<>> THEN FALSE
    ELSE IF a = <<>> THEN TRUE
    ELSE IF Ord(Head(a)) # Ord(Head(b)) THEN Ord(Head(a)) < Ord(Head(b))
    ELSE StrLess(Tail(a), Tail(b))

StrLeq(a, b) == a = b \/ StrLess(a, b)

\* sub in s
Contains(sub, s) ==
    \E k \in 0..(Len(s) - Len(sub)) : SubSeq(s, k + 1, k + Len(sub)) = sub

\* str.strip()
RECURSIVE LStrip(_)
LStrip(s) == IF s # <<>> /\ IsSpace(Head(s)) THEN LStrip(Tail(s)) ELSE s
RECURSIVE RStrip(_)
RStrip(s) == IF s # <<>> /\ IsSpace(s[Len(s)]) THEN RStrip(SubSeq(s, 1, Len(s) - 1)) ELSE s
Strip(s) == RStrip(LStrip(s))

\* re.sub(r"\s+", " ", s): every maximal run of whitespace becomes one space
RECURSIVE CollapseWs(_)
CollapseWs(s) ==
    IF s = <<>> THEN <<>>
    ELSE IF IsSpace(Head(s)) THEN <<" ">> \o CollapseWs(LStrip(s))
    ELSE <<Head(s)>> \o CollapseWs(Tail(s))

norm_ws(s) == CollapseWs(Strip(s))

---------------------------------------------------------------------------
(* JSON values as json.loads returns them *)

JNull    == [t |-> "null"]
JStr(s)  == [t |-> "str",  s |-> s]
\* a number, carried as the text str() gives for it ("0", "55.0", "-1.5")
JNum(s)  == [t |-> "num",  s |-> s]
JBool(b) == [t |-> "bool", s |-> IF b THEN <<"T","r","u","e">> ELSE <<"F","a","l","s","e">>]
\* a list, carried as its repr
JList(s) == [t |-> "list", s |-> s]
JDict(f) == [t |-> "dict", f |-> f]
\* what a call yields when it raises instead of returning
Raised   == [t |-> "raise"]

EmptyStr  == JStr(<<>>)
EmptyDict == JDict(<<>>)

isinstance_dict(x) == x.t = "dict"

\* bool(x): the truth value `x or ""` tests
DigitsOf(s) == SelectSeq(s, IsDigit)
Truthy(x) ==
    CASE x.t = "null" -> FALSE
      [] x.t = "bool" -> x.s = <<"T","r","u","e">>
      [] x.t = "num"  -> \E k \in 1..Len(x.s) : IsDigit(x.s[k]) /\ x.s[k] # "0"
      [] x.t = "str"  -> x.s # <<>>
      [] x.t = "list" -> x.s # <<"[","]">>
      [] x.t = "dict" -> DOMAIN x.f # {}

\* str(x); a non-empty dict's repr is abstracted to "{:}"
Str(x) ==
    CASE x.t = "null" -> <<"N","o","n","e">>
      [] x.t = "dict" -> IF DOMAIN x.f = {} THEN <<"{","}">> ELSE <<"{",":","}">>
      [] OTHER        -> x.s

\* obj.get(k): None for a missing key; AttributeError when obj is no dict
Get(obj, k) ==
    IF obj.t # "dict" THEN Raised
    ELSE IF k \in DOMAIN obj.f THEN obj.f[k] ELSE JNull

\* x or d
Or(x, d) == IF Truthy(x) THEN x ELSE d

---------------------------------------------------------------------------
(* The script's functions *)

\* the bounding box, in tenths of a degree
UK_LAT_MIN == 498
UK_LAT_MAX == 609
UK_LON_MIN == -85
UK_LON_MAX == 25

RECURSIVE DigitsValue(_)
DigitsValue(s) ==
    IF s = <<>> THEN 0
    ELSE 10 * DigitsValue(SubSeq(s, 1, Len(s) - 1)) + (IndexIn(s[Len(s)], DigitChars) - 1)

RECURSIVE Pow10(_)
Pow10(k) == IF k = 0 THEN 1 ELSE 10 * Pow10(k - 1)

NoValue == [ok |-> FALSE]

\* float(ss) for plain decimal text: [+-]digits[.digits] or [+-].digits; the
\* value is the exact fraction n/d.  Anything else over the model's characters
\* raises ValueError, which to_float turns into None.  (Exponents, "inf", "nan"
\* and digit-group underscores are not drawn by any Init.)
to_float(s) ==
    LET ss     == Strip(s)
        signed == ss # <<>> /\ Head(ss) \in {"+", "-"}
        body   == IF signed THEN Tail(ss) ELSE ss
        dots   == {k \in 1..Len(body) : body[k] = "."}
        wellformed ==
            /\ Cardinality(dots) <= 1
            /\ \A k \in 1..Len(body) : IsDigit(body[k]) \/ body[k] = "."
            /\ \E k \in 1..Len(body) : IsDigit(body[k])
        fracLen == IF dots = {} THEN 0 ELSE Len(body) - (CHOOSE k \in dots : TRUE)
        mag     == DigitsValue(DigitsOf(body))
    IN  IF ss = <<>> \/ ~wellformed THEN NoValue
        ELSE [ok |-> TRUE, n |-> IF signed /\ Head(ss) = "-" THEN 0 - mag ELSE mag,
              d |-> Pow10(fracLen)]

\* UK_LAT_MIN <= lat <= UK_LAT_MAX and UK_LON_MIN <= lon <= UK_LON_MAX
in_uk_bbox(lat, lon) ==
    IF ~lat.ok \/ ~lon.ok THEN FALSE
    ELSE /\ UK_LAT_MIN * lat.d <= 10 * lat.n /\ 10 * lat.n <= UK_LAT_MAX * lat.d
         /\ UK_LON_MIN * lon.d <= 10 * lon.n /\ 10 * lon.n <= UK_LON_MAX * lon.d

\* \b at the gap before s[p] (p = Len(s) + 1: the end of the string)
WordBoundary(s, p) ==
    LET before == p > 1 /\ p - 1 <= Len(s) /\ IsWord(s[p - 1])
        after  == p >= 1 /\ p <= Len(s) /\ IsWord(s[p])
    IN  before # after

\* UK_POSTCODE_RE = \b([A-Z]{1,2}\d[A-Z\d]?\s*\d[A-Z]{2})\b with re.I, run as the
\* backtracking matcher runs it.  Each operator gives the index of the match's
\* last character, or 0 when the rest of the pattern does not match from p.
\*   \d[A-Z]{2}\b
InwardAt(s, p) ==
    IF /\ p >= 1 /\ p + 2 <= Len(s)
       /\ IsDigit(s[p]) /\ IsLetter(s[p + 1]) /\ IsLetter(s[p + 2])
       /\ WordBoundary(s, p + 3)
    THEN p + 2 ELSE 0

RECURSIVE SpaceRun(_, _)
SpaceRun(s, p) == IF p <= Len(s) /\ IsSpace(s[p]) THEN 1 + SpaceRun(s, p + 1) ELSE 0

\*   \s* (greedy, giving back one at a time), then the inward part
AfterOutward(s, p) ==
    LET fits == {k \in 0..SpaceRun(s, p) : InwardAt(s, p + k) # 0}
    IN  IF fits = {} THEN 0
        ELSE InwardAt(s, p + (CHOOSE k \in fits : \A j \in fits : j <= k))

\*   \d[A-Z\d]? (the optional character tried first), then the rest
AfterArea(s, p) ==
    IF ~(p <= Len(s) /\ IsDigit(s[p])) THEN 0
    ELSE LET withUnit == IF p + 1 <= Len(s) /\ (IsLetter(s[p + 1]) \/ IsDigit(s[p + 1]))
                         THEN AfterOutward(s, p + 2) ELSE 0
         IN  IF withUnit # 0 THEN withUnit ELSE AfterOutward(s, p + 1)

\*   \b[A-Z]{1,2} (two letters tried first), then the rest
MatchAt(s, p) ==
    IF ~(p <= Len(s) /\ IsLetter(s[p]) /\ WordBoundary(s, p)) THEN 0
    ELSE LET two == IF p + 1 <= Len(s) /\ IsLetter(s[p + 1])
                    THEN AfterArea(s, p + 2) ELSE 0
         IN  IF two # 0 THEN two ELSE AfterArea(s, p + 1)

\* extract_postcode without .upper()
extract_postcode_AsWritten(addr) ==
    LET starts == {p \in 1..Len(addr) : MatchAt(addr, p) # 0}
    IN  IF starts = {} THEN <<>>
        ELSE LET p == CHOOSE q \in starts : \A r \in starts : q <= r
             IN  SubSeq(addr, p, MatchAt(addr, p))

\* m = UK_POSTCODE_RE.search(addr); m.group(1).upper() if m else ""
extract_postcode(addr) ==
    LET starts == {p \in 1..Len(addr) : MatchAt(addr, p) # 0}
    IN  IF starts = {} THEN <<>>
        ELSE LET p == CHOOSE q \in starts : \A r \in starts : q <= r
             IN  Upper(SubSeq(addr, p, MatchAt(addr, p)))

\* key = f"{name.lower()}|{postcode.upper()}|{lat}|{lon}"; the 16 hex digits of
\* its SHA-1 are represented by the key itself (a digest taken as collision-free)
stable_id(name, postcode, lat, lon) ==
    Lower(name) \o <<"|">> \o Upper(postcode) \o <<"|">> \o lat \o <<"|">> \o lon

\* pick_first that returns at the first key that is present, empty or not
RECURSIVE pick_first_FirstPresent(_, _)
pick_first_FirstPresent(obj, keys) ==
    IF keys = <<>> THEN <<>>
    ELSE LET v == Get(obj, Head(keys))
         IN  IF v.t = "null" THEN pick_first_FirstPresent(obj, Tail(keys))
             ELSE Strip(Str(v))

RECURSIVE pick_first(_, _)
pick_first(obj, keys) ==
    IF keys = <<>> THEN <<>>
    ELSE LET v == Get(obj, Head(keys))
         IN  IF v.t = "null" THEN pick_first(obj, Tail(keys))
             ELSE IF Strip(Str(v)) # <<>> THEN Strip(Str(v))
             ELSE pick_first(obj, Tail(keys))

WEBSITE_KEYS == <<"website", "url", "link">>
PHONE_KEYS   == <<"phone", "tel", "telephone">>

\* the literal list of lines 127 and 133
BAD_TERMS ==
    << <<"u","n","i","t","e","d"," ","a","r","a","b"," ","e","m","i","r","a","t","e","s">>,
       <<"d","u","b","a","i">>,
       <<"a","u","s","t","r","a","l","i","a">>,
       <<"s","o","u","t","h"," ","a","f","r","i","c","a">>,
       <<"e","c","u","a","d","o","r">>,
       <<"u","n","i","t","e","d"," ","s","t","a","t","e","s">>,
       <<"u","s","a">>,
       <<"c","a","n","a","d","a">> >>

\* Denylisted without the lower-casing of the address
Denylisted_CaseSensitive(address) ==
    \E k \in 1..Len(BAD_TERMS) : Contains(BAD_TERMS[k], address)

\* any(bad in addr_low for bad in [...])
Denylisted(address) ==
    \E addr_low \in {Lower(address)} :
        \E k \in 1..Len(BAD_TERMS) : Contains(BAD_TERMS[k], addr_low)

---------------------------------------------------------------------------
(* parse_dataset, one item at a time *)

\* MapOf without the isinstance check of line 106
MapOf_Unchecked(item) == Or(Get(item, "map"), EmptyDict)

\* m = item.get("map") or {}; if not isinstance(m, dict): m = {}
MapOf(item) ==
    LET m == Or(Get(item, "map"), EmptyDict)
    IN  IF ~isinstance_dict(m) THEN EmptyDict ELSE m

\* norm_ws(str(obj.get(k) or ""))
TextField(obj, k) == norm_ws(Str(Or(Get(obj, k), EmptyStr)))

\* str(m.get(k) or "").strip()
RawCoord(m, k) == Strip(Str(Or(Get(m, k), EmptyStr)))

\* not (not postcode and not in_uk_bbox(lat, lon))
PassesUkFilter(postcode, lat, lon) == postcode # <<>> \/ in_uk_bbox(lat, lon)

\* the "extra guard": only when no postcode was found
DroppedByGuard(postcode, address) == postcode = <<>> /\ Denylisted(address)

Location(sid, name, postcode, address, lat_s, lon_s, website, phone) ==
    [source |-> "alma", source_ids |-> sid, name |-> name, postcode |-> postcode,
     streetaddress |-> address, loc_lat |-> lat_s, loc_long |-> lon_s,
     website |-> website, phone |-> phone]

\* the single element of a one-element set; {e(v) : v \in {x}} evaluates x once
Value(S) == CHOOSE x \in S : TRUE

\* title, address, lat_s, lon_s as lines 104-111 extract them
Fields(item) ==
    [title   |-> TextField(item, "title"),
     address |-> TextField(MapOf(item), "address"),
     lat_s   |-> RawCoord(MapOf(item), "lat"),
     lon_s   |-> RawCoord(MapOf(item), "lng")]

\* lines 112-150: the UK filter, the extra guard, and the Location appended
Decide(item, fs, postcode) ==
    IF ~PassesUkFilter(postcode, to_float(fs.lat_s), to_float(fs.lon_s))
    THEN [kind |-> "reject"]
    ELSE IF DroppedByGuard(postcode, fs.address) THEN [kind |-> "reject"]
    ELSE [kind |-> "admit",
          loc  |-> Location(stable_id(fs.title, postcode, fs.lat_s, fs.lon_s),
                            fs.title, postcode, fs.address, fs.lat_s, fs.lon_s,
                            pick_first(item, WEBSITE_KEYS),
                            pick_first(item, PHONE_KEYS))]

\* The body of the for loop for one item: "skip" (not a dict), "reject"
\* (continue), "admit" (out.append(loc)), or "raise" (an uncaught exception:
\* .get on something that is no dict).
ItemResult(item) ==
    IF ~isinstance_dict(item) THEN [kind |-> "skip"]
    ELSE IF ~isinstance_dict(MapOf(item)) THEN [kind |-> "raise"]
    ELSE Value({ Value({ Decide(item, fs, postcode) :
                         postcode \in {extract_postcode(fs.address)} }) :
                 fs \in {Fields(item)} })

\* DictSet that never replaces: every record is kept
DictSet_AlwaysAppend(u, r) == Append(u, r)

\* DictSet that keeps the value a key got first
DictSet_KeepFirst(u, r) ==
    IF \E k \in 1..Len(u) : u[k].source_ids = r.source_ids THEN u ELSE Append(u, r)

\* uniq[r.source_ids] = r on a dict kept as its values in insertion order: a
\* key already present keeps its place and takes the new value
DictSet(u, r) ==
    IF \E k \in 1..Len(u) : u[k].source_ids = r.source_ids
    THEN [k \in 1..Len(u) |-> IF u[k].source_ids = r.source_ids THEN r ELSE u[k]]
    ELSE Append(u, r)

\* KeyLess with the names compared without regard to case
KeyLess_IgnoreCase(a, b) ==
    \/ StrLess(a.postcode, b.postcode)
    \/ a.postcode = b.postcode /\ StrLess(Lower(a.name), Lower(b.name))

\* key=lambda x: ((x.postcode or ""), (x.name or "")), compared as tuples
KeyLess(a, b) ==
    \/ StrLess(a.postcode, b.postcode)
    \/ a.postcode = b.postcode /\ StrLess(a.name, b.name)

\* sorted(): stable, so r goes after every element whose key is not greater
InsertSorted(r, s) ==
    LET n == Cardinality({k \in 1..Len(s) : ~KeyLess(r, s[k])})
    IN  SubSeq(s, 1, n) \o <<r>> \o SubSeq(s, n + 1, Len(s))

RECURSIVE Sorted(_)
Sorted(s) ==
    IF s = <<>> THEN <<>>
    ELSE InsertSorted(s[Len(s)], Sorted(SubSeq(s, 1, Len(s) - 1)))

NoCsv    == [exists |-> FALSE, rows |-> <<>>]
\* locations.csv as an earlier run left it
StaleRow == Location(<<"o","l","d">>, <<"O","l","d">>, <<>>, <<>>, <<>>, <<>>, <<>>, <<>>)
StaleCsv == [exists |-> TRUE, rows |-> <<StaleRow>>]

NoOutput == [printed |-> FALSE]

---------------------------------------------------------------------------
(* main(), step by step *)

\* MissingInput as a silent empty-result fallback: no exit, an empty result
MissingInput_FallsThrough ==
    /\ pc = "start" /\ fileState = "missing"
    /\ pc' = "dedupe"
    /\ idx' = 1
    /\ UNCHANGED <<fileState, data, csvFile, out, origin, uniq, rows, stdout, exitStatus, stderr>>

\* LOCATIONS_JSON.exists() is false: raise SystemExit(f"Missing {LOCATIONS_JSON}. ...")
MissingInput ==
    /\ pc = "start" /\ fileState = "missing"
    /\ pc' = "exit"
    /\ exitStatus' = 1
    /\ stderr' = [kind |-> "SystemExit", names |-> "data/_debug/locations_array.txt"]
    /\ UNCHANGED <<fileState, data, csvFile, idx, out, origin, uniq, rows, stdout>>

\* json.loads raises on text that is not JSON: uncaught, the run ends in a traceback
BadJson ==
    /\ pc = "start" /\ fileState = "malformed"
    /\ pc' = "crashed"
    /\ exitStatus' = 1
    /\ stderr' = [kind |-> "Traceback", names |-> "JSONDecodeError"]
    /\ UNCHANGED <<fileState, data, csvFile, idx, out, origin, uniq, rows, stdout>>

\* data = json.loads(...); out = []
LoadArray ==
    /\ pc = "start" /\ fileState = "array"
    /\ pc' = "loop"
    /\ idx' = 1
    /\ out' = <<>>
    /\ origin' = <<>>
    /\ UNCHANGED <<fileState, data, csvFile, uniq, rows, stdout, exitStatus, stderr>>

\* one iteration of `for item in data`
ProcessItem ==
    /\ pc = "loop" /\ idx <= Len(data)
    /\ \E r \in {ItemResult(data[idx])} :
           /\ out' = IF r.kind = "admit" THEN Append(out, r.loc) ELSE out
           /\ origin' = IF r.kind = "admit" THEN Append(origin, idx) ELSE origin
           /\ pc' = IF r.kind = "raise" THEN "crashed" ELSE "loop"
           /\ exitStatus' = IF r.kind = "raise" THEN 1 ELSE exitStatus
           /\ stderr' = IF r.kind = "raise"
                        THEN [kind |-> "Traceback", names |-> "AttributeError"]
                        ELSE stderr
    /\ idx' = idx + 1
    /\ UNCHANGED <<fileState, data, csvFile, uniq, rows, stdout>>

\* the for loop is exhausted: uniq = {}
EndLoop ==
    /\ pc = "loop" /\ idx > Len(data)
    /\ pc' = "dedupe"
    /\ idx' = 1
    /\ uniq' = <<>>
    /\ UNCHANGED <<fileState, data, csvFile, out, origin, rows, stdout, exitStatus, stderr>>

\* one iteration of `for r in out: uniq[r.source_ids] = r`
DedupeStep ==
    /\ pc = "dedupe" /\ idx <= Len(out)
    /\ uniq' = DictSet(uniq, out[idx])
    /\ idx' = idx + 1
    /\ UNCHANGED <<fileState, data, csvFile, pc, out, origin, rows, stdout, exitStatus, stderr>>

\* return list(uniq.values())
ReturnRows ==
    /\ pc = "dedupe" /\ idx > Len(out)
    /\ rows' = uniq
    /\ pc' = "write"
    /\ UNCHANGED <<fileState, data, csvFile, idx, out, origin, uniq, stdout, exitStatus, stderr>>

\* write_csv(out, rows): the file is opened "w" and gets the sorted rows
write_csv(rs) == [exists |-> TRUE, rows |-> Sorted(rs)]

WriteCsv ==
    /\ pc = "write"
    /\ csvFile' = write_csv(rows)
    /\ pc' = "print"
    /\ UNCHANGED <<fileState, data, idx, out, origin, uniq, rows, stdout, exitStatus, stderr>>

\* print(f"WROTE: {out} rows: {len(rows)} (with_postcode={with_pc})"); exit 0
PrintSummary ==
    /\ pc = "print"
    /\ stdout' = [printed |-> TRUE, rows |-> Len(rows),
                  with_postcode |-> Cardinality({k \in 1..Len(rows) : rows[k].postcode # <<>>})]
    /\ pc' = "done"
    /\ exitStatus' = 0
    /\ UNCHANGED <<fileState, data, csvFile, idx, out, origin, uniq, rows, stderr>>

Next ==
    \/ MissingInput
    \/ BadJson
    \/ LoadArray
    \/ ProcessItem
    \/ EndLoop
    \/ DedupeStep
    \/ ReturnRows
    \/ WriteCsv
    \/ PrintSummary

\* The state when main() is entered, the input file holding one of `arrays`
InitWith(arrays) ==
    /\ fileState \in {"missing", "malformed", "array"}
    /\ data \in (IF fileState = "array" THEN arrays ELSE {<<>>})
    /\ csvFile \in {NoCsv, StaleCsv}
    /\ pc = "start"
    /\ idx = 0
    /\ out = <<>>
    /\ origin = <<>>
    /\ uniq = <<>>
    /\ rows = <<>>
    /\ stdout = NoOutput
    /\ exitStatus = -1
    /\ stderr = [kind |-> "none", names |-> ""]

\* all sequences over S of length 0..n
SeqsUpTo(S, n) == UNION {[1..k -> S] : k \in 0..n}

\* {"title": title, "map": {"address": address, "lat": lat, "lng": lng}}
Rec(title, address, lat, lng) ==
    JDict([title |-> JStr(title),
           map   |-> JDict([address |-> JStr(address), lat |-> lat, lng |-> lng])])

---------------------------------------------------------------------------
(* Inputs: arrays of arbitrary JSON values *)

MaxItems == 2

S_ClinicOne == <<"C","l","i","n","i","c"," ","O","n","e">>
S_HighSt    == <<"1"," ","H","i","g","h"," ","S","t",","," ","L","o","n","d","o","n"," ","S","W","1","A"," ","1","A","A">>
S_DubaiBr   == <<"D","u","b","a","i"," ","B","r","a","n","c","h">>
S_DubaiAddr == <<"S","h","e","i","k","h"," ","Z","a","y","e","d"," ","R","d",","," ","D","u","b","a","i",","," ","U","A","E">>
S_EdgeCase  == <<"E","d","g","e"," ","C","a","s","e">>
S_Somewhere == <<"S","o","m","e","w","h","e","r","e">>
S_51_5      == <<"5","1",".","5">>
S_m0_1      == <<"-","0",".","1">>
S_25_2      == <<"2","5",".","2">>
S_55_3      == <<"5","5",".","3">>
S_55_0      == <<"5","5",".","0">>
S_m2_0      == <<"-","2",".","0">>
S_abc       == <<"a","b","c">>

\* Scenarios A, B and C of the specification
ScenarioA == Rec(S_ClinicOne, S_HighSt, JStr(S_51_5), JStr(S_m0_1))
ScenarioB == Rec(S_DubaiBr, S_DubaiAddr, JStr(S_25_2), JStr(S_55_3))
ScenarioC == Rec(S_EdgeCase, S_Somewhere, JStr(S_55_0), JStr(S_m2_0))

AnomalousItems ==
    { JNum(<<"3">>), JStr(S_abc), JNull, JList(<<"[","1","]">>),
      \* no map; a map that is a string, a list, null
      JDict([title |-> JStr(S_EdgeCase)]),
      JDict([title |-> JStr(S_EdgeCase), map |-> JStr(S_HighSt)]),
      JDict([title |-> JStr(S_EdgeCase), map |-> JList(<<"[","1","]">>)]),
      JDict([title |-> JStr(S_EdgeCase), map |-> JNull]),
      \* no title; a null title; no address
      JDict([map |-> JDict([address |-> JStr(S_HighSt), lat |-> JStr(S_51_5), lng |-> JStr(S_m0_1)])]),
      JDict([title |-> JNull, map |-> JDict([address |-> JStr(S_Somewhere), lat |-> JStr(S_55_0), lng |-> JStr(S_m2_0)])]),
      JDict([title |-> JStr(S_EdgeCase), map |-> JDict([lat |-> JStr(S_55_0), lng |-> JStr(S_m2_0)])]),
      \* non-numeric, empty, null, boolean coordinates
      Rec(S_ClinicOne, S_HighSt, JStr(S_abc), JStr(<<>>)),
      Rec(S_EdgeCase, S_Somewhere, JStr(S_abc), JStr(S_m2_0)),
      Rec(S_EdgeCase, S_Somewhere, JStr(S_55_0), JNull),
      Rec(S_ClinicOne, S_HighSt, JBool(TRUE), JDict(<<>>)) }

Items == AnomalousItems \cup {ScenarioA, ScenarioB, ScenarioC}

Init == InitWith(SeqsUpTo(Items, MaxItems))

Spec == Init /\ [][Next]_vars

---------------------------------------------------------------------------
(* Vocabulary of the properties *)

Range(s) == {s[k] : k \in 1..Len(s)}

AfterLoop   == pc \in {"dedupe", "write", "print", "done"}
AfterDedupe == pc \in {"write", "print", "done"}
AfterWrite  == pc \in {"print", "done"}

\* the for loop has dealt with data[k]
Processed(k) == k \in 1..Len(data) /\ (AfterLoop \/ (pc = "loop" /\ k < idx))

\* data[k] was admitted: a Location built from it was appended to out
Admitted(k) == k \in Range(origin)

\* the Location built from data[k], for an admitted k
RowOf(k) == out[CHOOSE j \in 1..Len(origin) : origin[j] = k]

---------------------------------------------------------------------------
(* C7: the input file is missing *)

\* C7: when the input file does not exist the run stops in parse_dataset with
\* exit status 1 and a message naming the missing path; no item is processed,
\* nothing is printed, and no step of the run changes locations.csv (it stays
\* absent, or stays as the earlier run left it).
C7_MissingInputAborts ==
    /\ [](fileState = "missing" =>
            /\ pc \in {"start", "exit"}
            /\ idx = 0 /\ out = <<>> /\ rows = <<>>
            /\ stdout = NoOutput
            /\ csvFile \in {NoCsv, StaleCsv}
            /\ (pc = "start" => exitStatus = -1)
            /\ (pc = "exit" => /\ exitStatus = 1
                               /\ stderr.kind = "SystemExit"
                               /\ stderr.names = "data/_debug/locations_array.txt"))
    /\ [][fileState = "missing" => /\ csvFile' = csvFile
                                   /\ pc' = "exit"]_vars

C7_Witness == fileState = "missing" /\ pc = "exit" /\ csvFile = StaleCsv

---------------------------------------------------------------------------
(* C8: per-record anomalies *)

\* The safety part of C8: with an array of arbitrary JSON values as input, the run never aborts:
\* every element is processed, each loop advances within its list, and the run
\* ends with status 0 and the CSV written.  Elements that
\* are not objects give no row; a missing or non-object map gives no row; a
\* missing or null title gives the empty name; a coordinate that is no number
\* has no numeric value and only a postcode admits its record.  Each record is
\* decided on its own: out holds, in input order, exactly the rows the admitted
\* records give when they are the only element.
C8_NoAbort ==
    fileState = "array" =>
        /\ pc \notin {"crashed", "exit"}
        /\ exitStatus # 1
        /\ (pc = "loop" => idx \in 1..(Len(data) + 1))
        /\ (pc = "dedupe" => idx \in 1..(Len(out) + 1))
        /\ (AfterLoop => \A k \in 1..Len(data) : Processed(k))
        /\ (pc = "done" => /\ exitStatus = 0
                           /\ csvFile.exists
                           /\ Range(csvFile.rows) = Range(rows)
                           /\ Range(rows) \subseteq Range(out)
                           /\ stdout.printed /\ stdout.rows = Len(rows))
        /\ Len(origin) = Len(out)
        /\ \A j \in 1..Len(origin) : \A i \in 1..Len(origin) : i < j => origin[i] < origin[j]
        /\ \A k \in 1..Len(data) :
              Processed(k) =>
                 /\ (Admitted(k) <=> ItemResult(data[k]).kind = "admit")
                 /\ (Admitted(k) =>
                        /\ isinstance_dict(data[k])
                        /\ RowOf(k) = ItemResult(data[k]).loc
                        /\ "map" \in DOMAIN data[k].f /\ isinstance_dict(data[k].f.map)
                        /\ (("title" \notin DOMAIN data[k].f \/ data[k].f.title = JNull)
                               => RowOf(k).name = <<>>)
                        /\ ("address" \notin DOMAIN data[k].f.map.f
                               => RowOf(k).streetaddress = <<>>)
                        /\ ((~to_float(RowOf(k).loc_lat).ok \/ ~to_float(RowOf(k).loc_long).ok)
                               => RowOf(k).postcode # <<>>))

\* The stages main() has yet to go through, and the iterations its current loop
\* has yet to make
StagesLeft ==
    CASE pc = "start"  -> 5
      [] pc = "loop"   -> 4
      [] pc = "dedupe" -> 3
      [] pc = "write"  -> 2
      [] pc = "print"  -> 1
      [] OTHER         -> 0

IterationsLeft ==
    CASE pc = "loop"   -> Len(data) + 1 - idx
      [] pc = "dedupe" -> Len(out) + 1 - idx
      [] OTHER         -> 0

StepsLeft == StagesLeft * (Len(data) + 2) + IterationsLeft

\* C8: whatever anomalous elements the input array holds, the run never aborts
\* (C8_NoAbort in every state) and it terminates: every step of the run brings
\* it strictly nearer to the printed summary, so no element makes it loop, and
\* it ends with status 0 and the CSV written.
C8_AnomaliesNeverAbort ==
    /\ []C8_NoAbort
    /\ [](fileState = "array" => /\ Len(out) <= Len(data)
                                 /\ IterationsLeft \in 0..(Len(data) + 1))
    /\ [][fileState = "array" => StepsLeft' < StepsLeft]_vars

\* a non-object element, a record with a string for its map and a record with a
\* non-numeric latitude have been processed, and the run has finished
C8_Witness ==
    /\ pc = "done" /\ exitStatus = 0 /\ csvFile.exists
    /\ \E k \in 1..Len(data) : ~isinstance_dict(data[k])
    /\ \E k \in 1..Len(data) :
          \/ /\ isinstance_dict(data[k]) /\ "map" \in DOMAIN data[k].f
             /\ data[k].f.map.t = "str"
          \/ /\ Admitted(k) /\ ~to_float(RowOf(k).loc_lat).ok

---------------------------------------------------------------------------
(* Inputs for the de-duplication and the writer: records that share or nearly
   share their (name, postcode, lat, lon) *)

MaxDup == 3

S_Spa      == <<"S","p","a">>
S_SPA      == <<"S","P","A">>
S_Pc       == <<"S","W","1","A"," ","1","A","A">>
S_PcSuite  == <<"S","u","i","t","e"," ","2",","," ","s","w","1","a"," ","1","a","a">>
S_51_50    == <<"5","1",".","5","0">>
S_0        == <<"0">>
S_1bar2    == <<"1","|","2">>
S_3        == <<"3">>
S_1        == <<"1">>
S_2bar3    == <<"2","|","3">>
S_Web      == <<"a","l","m","a",".","e","x","a","m","p","l","e","/","s","p","a">>
S_Tel      == <<"0","2","0"," ","7","9","4","6"," ","0","0","0","0">>

\* dict d with key k added
With(d, k, v) == JDict((k :> v) @@ d.f)

DedupItems ==
    { \* the same clinic twice: name cased differently, another street address,
      \* other contact fields; one (name.lower(), postcode, lat, lon)
      With(Rec(S_Spa, S_Pc, JStr(S_51_5), JStr(S_0)), "website", JStr(S_Web)),
      With(Rec(S_SPA, S_PcSuite, JStr(S_51_5), JStr(S_0)), "phone", JStr(S_Tel)),
      \* the same clinic with its latitude written "51.50"
      Rec(S_Spa, S_Pc, JStr(S_51_50), JStr(S_0)),
      \* coordinates that are not numbers and hold the key's separator
      Rec(S_Spa, S_Pc, JStr(S_1bar2), JStr(S_3)),
      Rec(S_Spa, S_Pc, JStr(S_1), JStr(S_2bar3)),
      \* no postcode, inside the box
      Rec(S_Spa, S_Somewhere, JStr(S_51_5), JStr(S_0)),
      \* not an object
      JNull }

InitDedup == InitWith(SeqsUpTo(DedupItems, MaxDup))

SpecDedup == InitDedup /\ [][Next]_vars

\* the tuple stable_id is given
KeyTuple(r) == <<Lower(r.name), Upper(r.postcode), r.loc_lat, r.loc_long>>

\* a < b for strings compared character by character as code points
OrdinalLess(a, b) ==
    \E k \in 1..Len(b) :
        /\ k - 1 <= Len(a)
        /\ \A i \in 1..(k - 1) : a[i] = b[i]
        /\ (Len(a) = k - 1 \/ Ord(a[k]) < Ord(b[k]))

\* (postcode, name) of a <= (postcode, name) of b
PairLeq(a, b) ==
    \/ OrdinalLess(a.postcode, b.postcode)
    \/ /\ a.postcode = b.postcode
       /\ (a.name = b.name \/ OrdinalLess(a.name, b.name))

---------------------------------------------------------------------------
(* C4: duplicates collapse *)

\* C4: at every step the de-dupe mapping holds at most one row per source_ids,
\* and so do the returned rows and the CSV; once de-duplication is done, any
\* admitted records with one (lower-cased name, upper-cased postcode, raw lat,
\* raw lon) have one source_ids and exactly one returned row carries it.
C4_DuplicatesCollapse ==
    /\ \A a \in 1..Len(uniq) : \A b \in 1..Len(uniq) :
          uniq[a].source_ids = uniq[b].source_ids => a = b
    /\ \A a \in 1..Len(rows) : \A b \in 1..Len(rows) :
          rows[a].source_ids = rows[b].source_ids => a = b
    /\ (AfterWrite =>
          \A a \in 1..Len(csvFile.rows) : \A b \in 1..Len(csvFile.rows) :
             csvFile.rows[a].source_ids = csvFile.rows[b].source_ids => a = b)
    /\ \A i \in 1..Len(out) : \A j \in 1..Len(out) :
          KeyTuple(out[i]) = KeyTuple(out[j]) => out[i].source_ids = out[j].source_ids
    /\ (AfterDedupe =>
          \A j \in 1..Len(out) :
             Cardinality({k \in 1..Len(rows) : rows[k].source_ids = out[j].source_ids}) = 1)

\* three admitted records, two of them with one tuple but different fields
C4_Witness ==
    /\ pc = "done" /\ Len(out) = 3 /\ Len(rows) = 2
    /\ \E i \in 1..3 : \E j \in 1..3 :
          i # j /\ KeyTuple(out[i]) = KeyTuple(out[j]) /\ out[i] # out[j]

---------------------------------------------------------------------------
(* C5: only duplicates are merged *)

\* C5: admitted records whose (lower-cased name, upper-cased postcode, raw
\* lat, raw lon) differ in any component are not merged: the returned rows
\* are as many as the distinct tuples among the admitted records.
C5_DistinctTuplesDistinctRows ==
    AfterDedupe => Len(rows) = Cardinality({KeyTuple(out[j]) : j \in 1..Len(out)})

---------------------------------------------------------------------------
(* C6: the writer sorts *)

\* C6: the CSV's data rows are in ascending (postcode, name) order by code
\* point, so rows with an empty postcode come first, and they are the returned
\* rows, each as often as it was returned.
C6_CsvSortedByPostcodeName ==
    AfterWrite =>
        /\ csvFile.exists
        /\ \A k \in 1..(Len(csvFile.rows) - 1) :
              PairLeq(csvFile.rows[k], csvFile.rows[k + 1])
        /\ Len(csvFile.rows) = Len(rows)
        /\ \A r \in Range(rows) \cup Range(csvFile.rows) :
              Cardinality({k \in 1..Len(rows) : rows[k] = r})
                 = Cardinality({k \in 1..Len(csvFile.rows) : csvFile.rows[k] = r})

\* three rows were written in another order than they were returned, names
\* that differ only in case among them, an empty postcode first
C6_Witness ==
    /\ pc = "done" /\ Len(rows) = 3 /\ csvFile.rows # rows
    /\ csvFile.rows[1].postcode = <<>>
    /\ csvFile.rows[2].postcode = csvFile.rows[3].postcode
    /\ csvFile.rows[2].name = S_SPA /\ csvFile.rows[3].name = S_Spa

---------------------------------------------------------------------------
(* C10: the last duplicate wins *)

\* C10: once de-duplication is done, each returned row is, field for field,
\* the Location of the last admitted record (in input order) among those with
\* its source_ids.
C10_LastWriteWins ==
    AfterDedupe =>
        /\ \A j \in 1..Len(out) : \E k \in 1..Len(rows) : rows[k].source_ids = out[j].source_ids
        /\ \A k \in 1..Len(rows) :
              LET same == {j \in 1..Len(out) : out[j].source_ids = rows[k].source_ids}
              IN  /\ same # {}
                  /\ \E last \in same :
                        /\ \A j \in same : j <= last
                        /\ rows[k] = out[last]
                        /\ rows[k] = ItemResult(data[origin[last]]).loc

\* three admitted records with one source_ids; the row is the third one's and
\* differs from the first's and the second's
C10_Witness ==
    /\ pc = "done" /\ Len(out) = 3 /\ Len(rows) = 1
    /\ rows[1] = out[3] /\ rows[1] # out[2] /\ rows[1] # out[1]
    /\ rows[1].name # out[2].name /\ rows[1].website # out[2].website

---------------------------------------------------------------------------
(* What the properties mean by a postcode, a number and the rectangle, stated
   apart from the functions that compute them *)

\* s[i..j] is <1-2 letters><digit><optional letter or digit><whitespace, any
\* length><digit><2 letters>
ShapeAt(s, i, j) ==
    /\ i >= 1 /\ j <= Len(s) /\ j >= i + 4
    /\ IsLetter(s[i]) /\ IsDigit(s[j - 2]) /\ IsLetter(s[j - 1]) /\ IsLetter(s[j])
    /\ \E a \in 1..2 : \E u \in 0..1 :
          /\ i + a + u <= j - 3
          /\ \A x \in i..(i + a - 1) : IsLetter(s[x])
          /\ IsDigit(s[i + a])
          /\ (u = 1 => IsLetter(s[i + a + 1]) \/ IsDigit(s[i + a + 1]))
          /\ \A x \in (i + a + u + 1)..(j - 3) : IsSpace(s[x])

\* where s holds a postcode: <<first, last>> of every substring of that shape
PostcodeSpans(s) ==
    {sp \in (1..Len(s)) \X (1..Len(s)) : ShapeAt(s, sp[1], sp[2])}

\* ... that stands as a word of its own: no letter, digit or underscore
\* directly before or after it
WordSpans(s) ==
    {sp \in PostcodeSpans(s) :
        /\ ~(sp[1] > 1 /\ IsWord(s[sp[1] - 1]))
        /\ ~(sp[2] < Len(s) /\ IsWord(s[sp[2] + 1]))}

\* the upper-cased text of a leftmost span of S in s
IsFirstMatch(p, s, S) ==
    \E sp \in S : /\ \A other \in S : sp[1] <= other[1]
                  /\ p = Upper(SubSeq(s, sp[1], sp[2]))

\* the raw text of field k of a record's map: "" when absent or falsy
RawText(item, k) == Str(Or(Get(MapOf(item), k), EmptyStr))

\* the number a JSON value stands for: a number's value, a string's float()
NumberOf(v) == IF v.t \in {"str", "num"} THEN to_float(v.s) ELSE NoValue

\* lo <= x <= hi, lo and hi in tenths
Within(x, lo, hi) == x.ok /\ lo * x.d <= 10 * x.n /\ 10 * x.n <= hi * x.d

InRectangle(lat, lon) == Within(lat, 498, 609) /\ Within(lon, -85, 25)

HasBadTerm(s) == \E low \in {Lower(s)} : \E k \in 1..Len(BAD_TERMS) : Contains(BAD_TERMS[k], low)

IsRecord(k) == isinstance_dict(data[k])

---------------------------------------------------------------------------
(* Inputs for the bounding box: one record, its address one of a few, its
   lat and lng any of the values below *)

S_DubaiMall == <<"D","U","B","A","I"," ","M","A","L","L">>
S_Thousand  == <<"1","2"," ","T","h","o","u","s","a","n","d"," ","O","a","k","s">>

BboxAddresses == {S_Somewhere, S_DubaiAddr, S_DubaiMall, S_Thousand, S_HighSt, <<>>}

LatValues ==
    { JStr(<<"4","9",".","8">>), JStr(<<"4","9",".","7","9">>), JStr(<<"6","0",".","9">>), JStr(<<"6","0",".","9","1">>),
      JStr(S_55_0), JStr(S_abc), JStr(<<>>), JNull,
      JNum(S_55_0), JNum(<<"0">>), JNum(<<"6","1">>) }

LngValues ==
    { JStr(<<"-","8",".","5">>), JStr(<<"-","8",".","5","1">>), JStr(<<"2",".","5">>), JStr(<<"2",".","5","1">>),
      JStr(S_m2_0), JStr(<<"0">>), JStr(S_abc), JNull,
      JNum(S_m2_0), JNum(<<"0">>), JNum(<<"0",".","0">>), JNum(<<"2",".","5">>) }

BboxItems == {Rec(S_EdgeCase, a, lat, lng) : a \in BboxAddresses, lat \in LatValues, lng \in LngValues}

InitBbox == InitWith({<<x>> : x \in BboxItems})

SpecBbox == InitBbox /\ [][Next]_vars

---------------------------------------------------------------------------
(* C2: rows without a postcode *)

NoPostcodeRowOk(r) ==
    r.postcode = <<>> =>
        /\ InRectangle(to_float(r.loc_lat), to_float(r.loc_long))
        /\ ~HasBadTerm(r.streetaddress)

\* C2: every row that parse_dataset holds or returns, and every row written
\* to the CSV, that has an empty postcode has loc_lat and loc_long that parse
\* to numbers with 49.8 <= lat <= 60.9 and -8.5 <= lon <= 2.5, and a street
\* address that holds no denylisted term in any letter case.  A record with no
\* postcode whose lat or lng is missing, is no number or lies outside the
\* rectangle, or whose address holds a denylisted term, is rejected.
C2_NoPostcodeRowsInsideBox ==
    /\ \A j \in 1..Len(out) : NoPostcodeRowOk(out[j])
    /\ \A j \in 1..Len(uniq) : NoPostcodeRowOk(uniq[j])
    /\ \A j \in 1..Len(rows) : NoPostcodeRowOk(rows[j])
    /\ (AfterWrite => \A j \in 1..Len(csvFile.rows) : NoPostcodeRowOk(csvFile.rows[j]))
    /\ \A k \in 1..Len(data) :
          (/\ Processed(k) /\ IsRecord(k)
           /\ WordSpans(norm_ws(RawText(data[k], "address"))) = {}
           /\ \/ ~InRectangle(NumberOf(Get(MapOf(data[k]), "lat")),
                              NumberOf(Get(MapOf(data[k]), "lng")))
              \/ HasBadTerm(RawText(data[k], "address")))
          => ~Admitted(k)

\* a record inside the box with "Dubai" in its address has been rejected, the
\* run is over and the CSV is empty
C2_Witness ==
    /\ pc = "done" /\ Len(data) = 1 /\ out = <<>> /\ csvFile.rows = <<>>
    /\ IsRecord(1)
    /\ InRectangle(NumberOf(Get(MapOf(data[1]), "lat")), NumberOf(Get(MapOf(data[1]), "lng")))
    /\ RawText(data[1], "address") = S_DubaiAddr

---------------------------------------------------------------------------
(* C3: the bounding-box fallback *)

\* C3: a record with no postcode in its address, whose lat and lng both stand
\* for numbers inside the rectangle (bounds included; 0 included; JSON numbers
\* as well as strings), and whose address holds no denylisted term, is kept,
\* with an empty postcode.
C3_KeptByBoundingBox ==
    \A k \in 1..Len(data) :
        (/\ Processed(k) /\ IsRecord(k)
         /\ WordSpans(norm_ws(RawText(data[k], "address"))) = {}
         /\ InRectangle(NumberOf(Get(MapOf(data[k]), "lat")),
                        NumberOf(Get(MapOf(data[k]), "lng")))
         /\ ~HasBadTerm(RawText(data[k], "address")))
        => (Admitted(k) /\ RowOf(k).postcode = <<>>)

---------------------------------------------------------------------------
(* Inputs for the postcode: one record whose address is a run of tokens *)

MaxTokens == 3

AddressTokens ==
    { <<"S","W","1","A"," ","1","A","A">>, <<"b","2"," ","\t","2","b","b">>, <<"X">>, <<"9">>, <<" ">>, <<"_">>,
      <<"D","u","b","a","i">> }

RECURSIVE Flatten(_)
Flatten(ss) == IF ss = <<>> THEN <<>> ELSE Head(ss) \o Flatten(Tail(ss))

TokenAddresses == {Flatten(ts) : ts \in SeqsUpTo(AddressTokens, MaxTokens)}

\* missing / not a number; outside the box
PostcodeCoords == { <<JNull, JStr(S_abc)>>, <<JStr(S_25_2), JStr(S_55_3)>> }

PostcodeItems == {Rec(S_ClinicOne, a, c[1], c[2]) : a \in TokenAddresses, c \in PostcodeCoords}

InitPostcode == InitWith({<<x>> : x \in PostcodeItems})

SpecPostcode == InitPostcode /\ [][Next]_vars

---------------------------------------------------------------------------
(* C1: a postcode admits *)

\* C1 read to the letter: a record whose address holds a substring of the postcode
\* shape anywhere is admitted, whatever its coordinates and the rest of the
\* address, and its postcode field is the first such substring, upper-cased.
C1_AnyEmbeddedPostcodeAdmits ==
    \A k \in 1..Len(data) :
        (Processed(k) /\ IsRecord(k) /\ PostcodeSpans(RawText(data[k], "address")) # {})
        => /\ Admitted(k)
           /\ IsFirstMatch(RowOf(k).postcode, RowOf(k).streetaddress,
                           PostcodeSpans(RowOf(k).streetaddress))

\* C1 for word-delimited postcodes: a record whose address holds a postcode-shaped substring with
\* no letter, digit or underscore directly before or after it is admitted,
\* whatever its coordinates and the rest of the address (denylisted terms
\* included), and its postcode field is the first such substring of the
\* whitespace-normalised address, upper-cased.
C1_DelimitedPostcodeAdmits ==
    \A k \in 1..Len(data) :
        (Processed(k) /\ IsRecord(k) /\ WordSpans(RawText(data[k], "address")) # {})
        => /\ Admitted(k)
           /\ RowOf(k).streetaddress = norm_ws(RawText(data[k], "address"))
           /\ IsFirstMatch(RowOf(k).postcode, RowOf(k).streetaddress,
                           WordSpans(RowOf(k).streetaddress))

\* admitted with coordinates that are no numbers: a lower-case postcode with a
\* tab in it, after "Dubai", before a second postcode
C1_Witness ==
    /\ pc = "done" /\ Len(data) = 1 /\ Admitted(1)
    /\ ~to_float(RowOf(1).loc_long).ok
    /\ RawText(data[1], "address") = <<"D","u","b","a","i">> \o <<" ">> \o <<"b","2"," ","\t","2","b","b">>
    /\ RowOf(1).postcode = <<"B","2"," ","2","B","B">>

---------------------------------------------------------------------------
(* Inputs for the alias fields: one admitted record; each of website, url,
   link (or phone, tel, telephone) absent or holding one of six values *)

ValueCodes == {"absent", "null", "empty", "blank", "plain", "padded", "zero"}

\* the letter that tells the values of one key from another's
KeyLetter(k) ==
    CASE k = "website" -> "w" [] k = "url" -> "u" [] k = "link" -> "l"
      [] k = "phone" -> "p"   [] k = "tel" -> "t" [] k = "telephone" -> "e"

ValueFor(k, code) ==
    CASE code = "null"   -> JNull
      [] code = "empty"  -> JStr(<<>>)
      [] code = "blank"  -> JStr(<<" ", "\t">>)
      [] code = "plain"  -> JStr(<<KeyLetter(k)>>)
      [] code = "padded" -> JStr(<<" ", KeyLetter(k), " ">>)
      [] code = "zero"   -> JNum(<<"0">>)

\* ScenarioA with the keys of ks set as a says
WithAliases(ks, a) ==
    JDict([k \in {x \in Range(ks) : a[x] # "absent"} |-> ValueFor(k, a[k])] @@ ScenarioA.f)

PickItems ==
    {WithAliases(WEBSITE_KEYS, a) : a \in [Range(WEBSITE_KEYS) -> ValueCodes]}
       \cup {WithAliases(PHONE_KEYS, a) : a \in [Range(PHONE_KEYS) -> ValueCodes]}

InitPick == InitWith({<<x>> : x \in PickItems})

SpecPick == InitPick /\ [][Next]_vars

---------------------------------------------------------------------------
(* C9: website and phone *)

\* the first non-empty text of texts, in that order; "" when it has none
FirstOf(texts) ==
    LET good == {i \in 1..Len(texts) : texts[i] # <<>>}
    IN  IF good = {} THEN <<>>
        ELSE texts[CHOOSE i \in good : \A j \in good : i <= j]

\* the values item holds under keys, in the order of keys
ValuesAt(item, keys) == [i \in 1..Len(keys) |-> Get(item, keys[i])]

\* the value as it is; an absent or null value has none
AsIs(v) == IF v.t = "null" THEN <<>> ELSE Str(v)

\* the value stripped of surrounding whitespace
Stripped(v) == IF v.t = "null" THEN <<>> ELSE Strip(Str(v))

\* C9 read to the letter: website is the value of the first of website, url, link whose
\* value is non-empty, "" when none is; phone likewise among phone, tel,
\* telephone.
C9_FirstNonEmptyValue ==
    \A k \in 1..Len(data) :
        (Processed(k) /\ Admitted(k)) =>
            /\ RowOf(k).website = FirstOf([i \in 1..Len(WEBSITE_KEYS) |-> AsIs(ValuesAt(data[k], WEBSITE_KEYS)[i])])
            /\ RowOf(k).phone = FirstOf([i \in 1..Len(PHONE_KEYS) |-> AsIs(ValuesAt(data[k], PHONE_KEYS)[i])])

\* C9 on the stripped text: website is the text, stripped of surrounding whitespace, of
\* the first of website, url, link whose value has a non-empty stripped text,
\* "" when none has; phone likewise among phone, tel, telephone.  A value that
\* is absent, null, empty or all whitespace never hides a later key, and an
\* earlier key with any other value wins.
C9_FirstNonBlankValue ==
    \A k \in 1..Len(data) :
        (Processed(k) /\ Admitted(k)) =>
            /\ RowOf(k).website = FirstOf([i \in 1..Len(WEBSITE_KEYS) |-> Stripped(ValuesAt(data[k], WEBSITE_KEYS)[i])])
            /\ RowOf(k).phone = FirstOf([i \in 1..Len(PHONE_KEYS) |-> Stripped(ValuesAt(data[k], PHONE_KEYS)[i])])

\* website is null, url all whitespace, link padded: website is link's text
C9_Witness ==
    /\ pc = "done" /\ Len(data) = 1 /\ Admitted(1)
    /\ Get(data[1], "website") = JNull /\ "website" \in DOMAIN data[1].f
    /\ Get(data[1], "url") = JStr(<<" ", "\t">>)
    /\ Get(data[1], "link") = JStr(<<" ", "l", " ">>)
    /\ RowOf(1).website = <<"l">>

===========================================================================
